---------------------------- MODULE Spec2Model ----------------------------
(***************************************************************************)
(* Spatial audio of bevy_kira_audio (src/spacial.rs): the attenuation and  *)
(* panning computed by SpacialAudio::update, the systems run_spacial_audio *)
(* and cleanup_stopped_spacial_instances, and the helper lerp.             *)
(*                                                                         *)
(* f32 arithmetic is modelled by a binary floating-point format of the     *)
(* same shape as IEEE-754 single precision (round to nearest, ties to      *)
(* even, gradual underflow, overflow to infinity, NaN), scaled down to     *)
(* Prec significand bits.  A finite value is the integer number of quanta  *)
(* (1 quantum = 2^-FracBits) it is worth; +inf, -inf and NaN are three     *)
(* integers outside the finite range.  The sign of zero is not modelled.   *)
(***************************************************************************)
EXTENDS Integers, Sequences, FiniteSets, TLC

\* Bounds of the scaled-down float format.
Prec == 4
FracBits == 7
MaxExp == 11

Pow2(k) == 2 ^ k

MaxFinite == (Pow2(Prec) - 1) * Pow2(MaxExp)
PosInf == MaxFinite + 1
NegInf == -(MaxFinite + 1)
NaN == MaxFinite + 2

IsNaN(x) == x = NaN
IsFinite(x) == x >= -MaxFinite /\ x <= MaxFinite
Abs(n) == IF n < 0 THEN -n ELSE n
Sign(n) == IF n < 0 THEN -1 ELSE 1
Max(m, n) == IF m > n THEN m ELSE n

\* Number of binary digits of n >= 0.
RECURSIVE BitLen(_)
BitLen(n) == IF n = 0 THEN 0 ELSE 1 + BitLen(n \div 2)

\* The exponent (in quanta) of a finite value a, and its significand: the value is
\* Significand(a) * 2^Exp(a) in magnitude.
Exp(a) == Max(BitLen(Abs(a)) - Prec, 0)
Significand(a) == Abs(a) \div Pow2(Exp(a))

\* n / 2^shift (shift > 0) rounded to the nearest integer, ties to even.
RoundShift(n, shift) ==
    (n + Pow2(shift - 1) - 1 + ((n \div Pow2(shift)) % 2)) \div Pow2(shift)

\* A rounded magnitude beyond the largest finite value is +inf.
Saturate(v) == IF v > MaxFinite THEN PosInf ELSE v

\* n * 2^e quanta rounded to a multiple of 2^k quanta.
RoundAt(n, e, k) ==
    IF k > MaxExp THEN PosInf
    ELSE IF k <= e THEN n * Pow2(e)
    ELSE Saturate(RoundShift(n, k - e) * Pow2(k))

\* n * 2^e quanta (n >= 0) rounded to the nearest value of the format, ties to
\* even; beyond the largest finite value the result is +inf.  The exponent of
\* the result leaves Prec significand bits, or is 0 for a subnormal.
RoundMag(n, e) == IF n = 0 THEN 0 ELSE RoundAt(n, e, Max(BitLen(n) + e - Prec, 0))

Round(n, e) == IF n < 0 THEN -RoundMag(-n, e) ELSE RoundMag(n, e)

\* A float literal with an integer value, and 0.5.
FromInt(i) == Round(i, FracBits)
Zero == FromInt(0)
One == FromInt(1)
Two == FromInt(2)
Four == FromInt(4)
Half == Round(1, FracBits - 1)

Neg(a) == IF IsNaN(a) THEN NaN ELSE -a

Add(a, b) ==
    IF IsNaN(a) \/ IsNaN(b) THEN NaN
    ELSE IF ~IsFinite(a) THEN (IF ~IsFinite(b) /\ b # a THEN NaN ELSE a)
    ELSE IF ~IsFinite(b) THEN b
    ELSE Round(a + b, 0)

Sub(a, b) == Add(a, Neg(b))

Mul(a, b) ==
    IF IsNaN(a) \/ IsNaN(b) THEN NaN
    ELSE IF ~IsFinite(a) \/ ~IsFinite(b)
         THEN (IF a = 0 \/ b = 0 THEN NaN
               ELSE IF Sign(a) = Sign(b) THEN PosInf ELSE NegInf)
    ELSE Sign(a) * Sign(b)
           * RoundMag(Significand(a) * Significand(b), Exp(a) + Exp(b) - FracBits)

\* Quotient bits kept before rounding: the last one is a sticky bit.
GuardBits == 2 * Prec + 2

\* The quotient num / den with a sticky last bit.
QuotSticky(num, den) == 2 * (num \div den) + (IF num % den = 0 THEN 0 ELSE 1)

Div(a, b) ==
    IF IsNaN(a) \/ IsNaN(b) THEN NaN
    ELSE IF ~IsFinite(a)
         THEN (IF ~IsFinite(b) THEN NaN
               ELSE IF Sign(a) = Sign(b) THEN PosInf ELSE NegInf)
    ELSE IF ~IsFinite(b) THEN 0
    ELSE IF b = 0
         THEN (IF a = 0 THEN NaN ELSE IF a > 0 THEN PosInf ELSE NegInf)
    ELSE Sign(a) * Sign(b)
           * RoundMag(QuotSticky(Significand(a) * Pow2(GuardBits), Significand(b)),
                      Exp(a) - Exp(b) + FracBits - GuardBits - 1)

\* Largest r in lo..hi with r * r <= x (lo * lo <= x < (hi + 1) * (hi + 1)), by
\* bisection at mid.
RECURSIVE ISqrt(_, _, _)
RECURSIVE ISqrtStep(_, _, _, _)
ISqrtStep(x, lo, hi, mid) ==
    IF mid * mid <= x THEN ISqrt(x, mid, hi) ELSE ISqrt(x, lo, mid - 1)
ISqrt(x, lo, hi) == IF lo = hi THEN lo ELSE ISqrtStep(x, lo, hi, (lo + hi + 1) \div 2)

\* The root r of x with a sticky last bit.
RootSticky(x, r) == 2 * r + (IF r * r = x THEN 0 ELSE 1)
\* The scaling 2^t of the significand that makes the exponent ea + FracBits - t even.
SqrtShift(ea) == IF (ea + FracBits) % 2 = 0 THEN GuardBits + 2 ELSE GuardBits + 3
SqrtScaled(x, e) ==
    RoundMag(RootSticky(x, ISqrt(x, 0, Pow2(2 * Prec + 3))), (e \div 2) - 1)

Sqrt(a) ==
    IF IsNaN(a) \/ a < 0 THEN NaN
    ELSE IF a = PosInf THEN PosInf
    ELSE IF a = 0 THEN 0
    ELSE SqrtScaled(Significand(a) * Pow2(SqrtShift(Exp(a))),
                    Exp(a) + FracBits - SqrtShift(Exp(a)))

Lt(a, b) == ~IsNaN(a) /\ ~IsNaN(b) /\ a < b

Le(a, b) == ~IsNaN(a) /\ ~IsNaN(b) /\ a <= b

\* A lerp with its end points exchanged.
lerpSwapped(lhs, rhs, s) == Add(rhs, Mul(Sub(lhs, rhs), s))

\* lerp (src/spacial.rs:14-16): lhs + ((rhs - lhs) * s), each operation rounded.
lerp(lhs, rhs, s) == Add(lhs, Mul(Sub(rhs, lhs), s))

\* f32 to f64 (`as f64`): every f32 value, infinities and NaN included, is an
\* f64 value, so the cast returns its argument's value.
AsF64(v) == v

(***************************************************************************)
(* Vec3 (glam), as used by SpacialAudio::update.  Each component operation *)
(* is a separately rounded f32 operation.                                  *)
(***************************************************************************)
Vec3(x, y, z) == <<FromInt(x), FromInt(y), FromInt(z)>>
VZero == <<Zero, Zero, Zero>>
VSub(a, b) == <<Sub(a[1], b[1]), Sub(a[2], b[2]), Sub(a[3], b[3])>>
VNeg(a) == <<Neg(a[1]), Neg(a[2]), Neg(a[3])>>
VScale(a, k) == <<Mul(a[1], k), Mul(a[2], k), Mul(a[3], k)>>
Dot(a, b) == Add(Add(Mul(a[1], b[1]), Mul(a[2], b[2])), Mul(a[3], b[3]))
LengthSquared(a) == Dot(a, a)
Length(a) == Sqrt(Dot(a, a))
LengthRecip(a) == Div(One, Length(a))
\* normalize_or_zero: self * length_recip when that is finite and positive, else zero.
ScaleOrZero(a, rcp) == IF IsFinite(rcp) /\ rcp > 0 THEN VScale(a, rcp) ELSE VZero
NormalizeOrZero(a) == ScaleOrZero(a, LengthRecip(a))

Clamp1(c) == IF IsNaN(c) THEN NaN ELSE IF c > One THEN One ELSE IF c < -One THEN -One ELSE c
\* right.angle_between(sound_path).cos(): angle_between is
\* acos(dot / sqrt(|a|^2 * |b|^2)) with the argument clamped to [-1, 1]; the
\* angle is kept as its cosine, so the rounding of acos and cos themselves is
\* not modelled.  A zero vector gives 0/0 = NaN.
CosAngleBetween(a, b) ==
    Clamp1(Div(Dot(a, b), Sqrt(Mul(LengthSquared(a), LengthSquared(b)))))

(***************************************************************************)
(* The attenuation model, SpacialAudio::update lines 79-91.                *)
(***************************************************************************)
\* The directional factor of lines 82 and 83: lerp(1., dot * 0.5 + 0.5, self_occlusion).
RawFactor(dot) == Add(Mul(dot, Half), Half)
DirFactor(dot, self_occlusion) == lerp(One, RawFactor(dot), self_occlusion)

\* A base volume that guards the division: 0 at distance 0.
BaseVolumeGuarded(range, dist) == IF dist = Zero THEN Zero ELSE Div(Mul(Four, range), dist)
\* A base volume that multiplies by the distance.
BaseVolumeProduct(range, dist) == Mul(Mul(Four, range), dist)

\* Line 80: 4. * emitter.range / sound_path.length().
BaseVolume(range, dist) == Div(Mul(Four, range), dist)

\* Line 82-83: 4. * volume * lerp(..) * lerp(..), evaluated left to right.
DirectVolume(range, dist, ef, lf) == Mul(Mul(Mul(Four, BaseVolume(range, dist)), ef), lf)

\* Line 90-91.
Panning(right, sound_path) == Div(Add(CosAngleBetween(right, sound_path), One), Two)

\* What one iteration of the emitter loop (lines 79-91) computes for an emitter
\* (transform et, fields range and eso) against the receiver (transform rt, self
\* occlusion rso).  The source normalizes sound_path twice, to the same value.
EmitterLocals(et, range, eso, rt, rso) ==
    LET sound_path == VSub(et.translation, rt.translation)
        dist == Length(sound_path)
        dir == NormalizeOrZero(sound_path)
    IN [sound_path |-> sound_path,
        dist |-> dist,
        dir |-> dir,
        direct_volume |-> DirectVolume(range, dist, DirFactor(Dot(et.back, dir), eso),
                                       DirFactor(Dot(rt.forward, dir), rso)),
        panning |-> Panning(rt.right, sound_path)]

\* The values handed to set_volume and set_panning (lines 95-96).
AttenuationModel(et, range, eso, rt, rso) ==
    LET l == EmitterLocals(et, range, eso, rt, rso)
    IN [volume |-> AsF64(l.direct_volume), panning |-> AsF64(l.panning)]

(***************************************************************************)
(* The scene: entities, components and the Assets<AudioInstance> store.    *)
(***************************************************************************)
Emitters == {"e1", "e2"}
Handles == {"h1", "h2"}
\* Longest instance list explored: as many entries as there are handles.
MaxLen == Cardinality(Handles)
\* Largest number of receiver entities explored.
MaxReceivers == 2

PlaybackStates == {"Playing", "Paused", "Stopped"}

\* GlobalTransform values supplied by the transform system: translations, and
\* rotations about the vertical axis by 0, 90, 180 and 270 degrees (the local
\* axes right = +X and back = +Z rotated; forward is the opposite of back).
Translations ==
    {Vec3(0, 0, 0), Vec3(10, 0, 0), Vec3(3, 0, 4), Vec3(0, 0, 2), Vec3(1, 0, 2)}
Rotations ==
    {[right |-> Vec3(1, 0, 0), back |-> Vec3(0, 0, 1)],
     [right |-> Vec3(0, 0, -1), back |-> Vec3(1, 0, 0)],
     [right |-> Vec3(-1, 0, 0), back |-> Vec3(0, 0, -1)],
     [right |-> Vec3(0, 0, 1), back |-> Vec3(-1, 0, 0)]}
Identity == [right |-> Vec3(1, 0, 0), back |-> Vec3(0, 0, 1)]
EmitterTransforms == {[translation |-> t, back |-> r.back] : t \in Translations, r \in Rotations}
ReceiverTransforms ==
    {[translation |-> t, forward |-> VNeg(r.back), right |-> r.right] :
        t \in {Vec3(0, 0, 0), Vec3(3, 0, 4)}, r \in Rotations}
Ranges == {FromInt(-1), Zero, FromInt(1), FromInt(5)}
Occlusions == {Zero, One, Two}

\* AudioEmitter with its GlobalTransform (lines 23-38).
EmitterValues(lists) ==
    [transform : EmitterTransforms, range : Ranges, self_occlusion : Occlusions,
     instances : lists]
\* AudioReceiver with its GlobalTransform (lines 54-59).
ReceiverOcclusions == {Zero, One}
ReceiverValues == [transform : ReceiverTransforms, self_occlusion : ReceiverOcclusions]

\* The scenes of the main specification: both emitters face along +Z with range 5
\* and full self occlusion, e1 at the receiver's position or at (10, 0, 0), e2 at
\* (3, 0, 4); the receiver sits at the origin, unrotated, with full self occlusion.
EmitterAt(t) ==
    [transform |-> [translation |-> t, back |-> Identity.back], range |-> FromInt(5),
     self_occlusion |-> One, instances |-> <<>>]
SceneEmitters ==
    {[e \in Emitters |-> IF e = "e1" THEN EmitterAt(t) ELSE EmitterAt(Vec3(3, 0, 4))] :
        t \in {Vec3(0, 0, 0), Vec3(10, 0, 0)}}
SceneReceiver ==
    [transform |-> [translation |-> Vec3(0, 0, 0), forward |-> VNeg(Identity.back),
                    right |-> Identity.right],
     self_occlusion |-> One]

\* The orders in which a Query may yield the emitters.
EmitterOrders ==
    {o \in [1..Cardinality(Emitters) -> Emitters] : \A i, j \in DOMAIN o : o[i] = o[j] => i = j}

VARIABLES
    spacial_audio,    \* whether the SpacialAudio resource is in the world
    receivers,        \* the (GlobalTransform, AudioReceiver) entities, a sequence
    emitters,         \* the (GlobalTransform, AudioEmitter) entities, by entity
    audio_instances,  \* Assets<AudioInstance>: handle -> instance, a partial function
    last,             \* the step taken last: its stage and, for the update, the query order
    tick,             \* the progress of the two passes of a frame run emitter by emitter
    probe             \* the arguments and result of a function applied on its own

vars == <<spacial_audio, receivers, emitters, audio_instances, last, tick, probe>>

\* The attenuation of the emitters of the main specification's scenes against
\* its receiver, computed once; any other pairing is computed when asked for.
AttenuationKey(e, r) ==
    <<e.transform, e.range, e.self_occlusion, r.transform, r.self_occlusion>>
AttenuationTable ==
    [k \in {AttenuationKey(sc[e], SceneReceiver) : sc \in SceneEmitters, e \in Emitters} |->
        AttenuationModel(k[1], k[2], k[3], k[4], k[5])] @@ <<>>
Attenuation(e, r) ==
    IF AttenuationKey(e, r) \in DOMAIN AttenuationTable
    THEN AttenuationTable[AttenuationKey(e, r)]
    ELSE AttenuationModel(e.transform, e.range, e.self_occlusion, r.transform, r.self_occlusion)

\* AudioInstance::set_volume / set_panning: the value last commanded.
SetVolume(instance, v) == [instance EXCEPT !.volume = v]
SetPanning(instance, p) == [instance EXCEPT !.panning = p]

\* An inner loop that returns at the first handle the store does not hold.
RECURSIVE ApplyUntilMissing(_, _, _)
ApplyUntilMissing(handles, out, instances) ==
    IF handles = <<>> \/ Head(handles) \notin DOMAIN instances THEN instances
    ELSE ApplyUntilMissing(Tail(handles), out,
                           [instances EXCEPT ![Head(handles)].volume = out.volume,
                                             ![Head(handles)].panning = out.panning])

\* Lines 93-98: the inner loop over one emitter's instances.
RECURSIVE ApplyToInstances(_, _, _)
ApplyToInstances(handles, out, instances) ==
    IF handles = <<>> THEN instances
    ELSE LET h == Head(handles)
             next == IF h \in DOMAIN instances
                     THEN [instances EXCEPT
                             ![h] = SetPanning(SetVolume(instances[h], out.volume), out.panning)]
                     ELSE instances
         IN ApplyToInstances(Tail(handles), out, next)

\* Lines 78-99: one iteration of the emitter loop.
UpdateEmitter(e, receiver, instances) ==
    ApplyToInstances(e.instances, Attenuation(e, receiver), instances)

\* An update that applies the emitters from the last yielded to the first.
RECURSIVE UpdateHeadLast(_, _, _, _)
UpdateHeadLast(order, receiver, ems, instances) ==
    IF order = <<>> THEN instances
    ELSE UpdateEmitter(ems[Head(order)], receiver,
                       UpdateHeadLast(Tail(order), receiver, ems, instances))

\* SpacialAudio::update (lines 71-100), the query yielding the emitters in `order`.
RECURSIVE Update(_, _, _, _)
Update(order, receiver, ems, instances) ==
    IF order = <<>> THEN instances
    ELSE Update(Tail(order), receiver, ems, UpdateEmitter(ems[Head(order)], receiver, instances))

\* A lookup that takes the first receiver when there are several.
GetFirstOk(rs) == Len(rs) >= 1

\* receiver.get_single() (line 109): Ok exactly when the query holds one entity.
GetSingleOk(rs) == Len(rs) = 1

\* A system that does not ask for the resource.
ResNotNeeded == TRUE

\* run_spacial_audio's parameter Res<SpacialAudio> (line 104): the system needs the resource.
HasSpacialAudioRes == spacial_audio

\* The run condition the plugin puts on the cleanup system: the SpacialAudio
\* resource exists.
SpacialAudioEnabled == spacial_audio

\* run_spacial_audio (lines 103-112) as scheduled in one frame.
RunSpacialAudio ==
    /\ \E order \in EmitterOrders :
         /\ last' = [stage |-> "update", order |-> order]
         /\ audio_instances' =
              IF HasSpacialAudioRes /\ GetSingleOk(receivers)
              THEN Update(order, receivers[1], emitters, audio_instances)
              ELSE audio_instances
    /\ UNCHANGED <<spacial_audio, receivers, emitters, tick, probe>>

\* Closures that drop a handle the store does not hold, that drop every handle
\* that is not Playing, and that test for Paused instead of Stopped.
KeepDropsMissing(handle, instances) ==
    handle \in DOMAIN instances /\ instances[handle].state # "Stopped"
KeepOnlyPlaying(handle, instances) ==
    IF handle \in DOMAIN instances THEN instances[handle].state = "Playing" ELSE TRUE
KeepUnlessPaused(handle, instances) ==
    IF handle \in DOMAIN instances THEN instances[handle].state # "Paused" ELSE TRUE

\* The closure of handles.retain (lines 121-127).
Keep(handle, instances) ==
    IF handle \in DOMAIN instances
    THEN instances[handle].state # "Stopped"
    ELSE TRUE

\* Vec::retain: keep, in order, the elements the closure accepts.
RECURSIVE Retain(_, _)
Retain(handles, instances) ==
    IF handles = <<>> THEN <<>>
    ELSE IF Keep(Head(handles), instances)
         THEN <<Head(handles)>> \o Retain(Tail(handles), instances)
         ELSE Retain(Tail(handles), instances)

\* Lines 118-128: one iteration of the loop over the emitters.
CleanupEmitter(e, instances) == [e EXCEPT !.instances = Retain(e.instances, instances)]

\* cleanup_stopped_spacial_instances (lines 114-129) as scheduled in one frame.
CleanupStoppedSpacialInstances ==
    /\ last' = [stage |-> "cleanup", order |-> <<>>]
    /\ emitters' =
         IF SpacialAudioEnabled
         THEN [e \in Emitters |-> CleanupEmitter(emitters[e], audio_instances)]
         ELSE emitters
    /\ UNCHANGED <<spacial_audio, receivers, audio_instances, tick, probe>>

(***************************************************************************)
(* The rest of the application and the audio engine.                       *)
(***************************************************************************)
Env == [stage |-> "env", order |-> <<>>]

InsertSpacialAudio ==
    /\ ~spacial_audio
    /\ spacial_audio' = TRUE
    /\ last' = Env
    /\ UNCHANGED <<receivers, emitters, audio_instances, tick, probe>>

RemoveSpacialAudio ==
    /\ spacial_audio
    /\ spacial_audio' = FALSE
    /\ last' = Env
    /\ UNCHANGED <<receivers, emitters, audio_instances, tick, probe>>

SpawnReceiver ==
    /\ Len(receivers) < MaxReceivers
    /\ receivers' = Append(receivers, SceneReceiver)
    /\ last' = Env
    /\ UNCHANGED <<spacial_audio, emitters, audio_instances, tick, probe>>

DespawnReceiver ==
    /\ receivers # <<>>
    /\ receivers' = Tail(receivers)
    /\ last' = Env
    /\ UNCHANGED <<spacial_audio, emitters, audio_instances, tick, probe>>

\* Game code pushes a handle onto an emitter's public instances field (line 37).
AttachInstance ==
    /\ \E e \in Emitters, h \in Handles :
         /\ Len(emitters[e].instances) < MaxLen
         /\ emitters' = [emitters EXCEPT ![e].instances = Append(@, h)]
    /\ last' = Env
    /\ UNCHANGED <<spacial_audio, receivers, audio_instances, tick, probe>>

\* A sound starts: its instance enters the store at kira's default volume 1 and panning 0.5.
NewInstance == [state |-> "Playing", volume |-> One, panning |-> Half]
PlayInstance ==
    /\ \E h \in Handles \ DOMAIN audio_instances :
         audio_instances' =
           [k \in DOMAIN audio_instances \cup {h} |->
               IF k = h THEN NewInstance ELSE audio_instances[k]]
    /\ last' = Env
    /\ UNCHANGED <<spacial_audio, receivers, emitters, tick, probe>>

\* The engine or the game moves an instance between playback states; Stopped is final.
ChangeState ==
    /\ \E h \in DOMAIN audio_instances, s \in PlaybackStates :
         /\ audio_instances[h].state # "Stopped"
         /\ s # audio_instances[h].state
         /\ audio_instances' = [audio_instances EXCEPT ![h].state = s]
    /\ last' = Env
    /\ UNCHANGED <<spacial_audio, receivers, emitters, tick, probe>>

\* The instance asset is dropped from the store.
RemoveInstance ==
    /\ \E h \in DOMAIN audio_instances :
         audio_instances' = [k \in DOMAIN audio_instances \ {h} |-> audio_instances[k]]
    /\ last' = Env
    /\ UNCHANGED <<spacial_audio, receivers, emitters, tick, probe>>

NoInstances == [h \in {} |-> NewInstance]
NoTick == [upd |-> <<>>, cln |-> <<>>, order |-> <<>>]
NoProbe == [fn |-> "none"]

Init ==
    /\ spacial_audio \in BOOLEAN
    /\ receivers = <<>>
    /\ emitters \in SceneEmitters
    /\ audio_instances = NoInstances
    /\ last = Env
    /\ tick = NoTick
    /\ probe = NoProbe

Next ==
    \/ RunSpacialAudio
    \/ CleanupStoppedSpacialInstances
    \/ InsertSpacialAudio
    \/ RemoveSpacialAudio
    \/ SpawnReceiver
    \/ DespawnReceiver
    \/ AttachInstance
    \/ PlayInstance
    \/ ChangeState
    \/ RemoveInstance

Spec == Init /\ [][Next]_vars

(***************************************************************************)
(* Liveness: the plugin schedules cleanup_stopped_spacial_instances in     *)
(* every frame, so the cleanup stage is weakly fair.  The resource stays   *)
(* in the world and one receiver exists.                                   *)
(***************************************************************************)
LiveInit ==
    /\ Init
    /\ spacial_audio

LiveNext ==
    \/ RunSpacialAudio
    \/ CleanupStoppedSpacialInstances
    \/ SpawnReceiver
    \/ DespawnReceiver
    \/ AttachInstance
    \/ PlayInstance
    \/ ChangeState
    \/ RemoveInstance

SpecLive == LiveInit /\ [][LiveNext]_vars /\ WF_vars(CleanupStoppedSpacialInstances)

(***************************************************************************)
(* One frame with both passes run emitter by emitter, in any interleaving: *)
(* tick.upd and tick.cln are the emitters each pass has still to visit.    *)
(***************************************************************************)
Lists == UNION {[1..n -> Handles] : n \in 0..MaxLen}
Stores ==
    UNION {[S -> [state : PlaybackStates, volume : {One}, panning : {Half}]] : S \in SUBSET Handles}

TickInit ==
    /\ spacial_audio = TRUE
    /\ receivers = <<SceneReceiver>>
    /\ emitters \in {[e \in Emitters |-> [sc[e] EXCEPT !.instances = l[e]]] :
                        sc \in SceneEmitters, l \in [Emitters -> Lists]}
    /\ audio_instances \in Stores
    /\ last = Env
    /\ \E o \in EmitterOrders, c \in EmitterOrders :
         tick = [upd |-> o, cln |-> c, order |-> o,
                 emitters |-> emitters, audio_instances |-> audio_instances]
    /\ probe = NoProbe

\* Lines 78-99 for the next emitter of the update's query.
UpdateStep ==
    /\ tick.upd # <<>>
    /\ audio_instances' =
         IF HasSpacialAudioRes /\ GetSingleOk(receivers)
         THEN UpdateEmitter(emitters[Head(tick.upd)], receivers[1], audio_instances)
         ELSE audio_instances
    /\ tick' = [tick EXCEPT !.upd = Tail(@)]
    /\ last' = [stage |-> "update", order |-> tick.order]
    /\ UNCHANGED <<spacial_audio, receivers, emitters, probe>>

\* Lines 118-128 for the next emitter of the cleanup's query.
CleanupStep ==
    /\ tick.cln # <<>>
    /\ emitters' =
         IF SpacialAudioEnabled
         THEN [emitters EXCEPT ![Head(tick.cln)] = CleanupEmitter(@, audio_instances)]
         ELSE emitters
    /\ tick' = [tick EXCEPT !.cln = Tail(@)]
    /\ last' = [stage |-> "cleanup", order |-> <<>>]
    /\ UNCHANGED <<spacial_audio, receivers, audio_instances, probe>>

TickNext == UpdateStep \/ CleanupStep

SpecTick == TickInit /\ [][TickNext]_vars

(***************************************************************************)
(* run_spacial_audio over a wide choice of geometry: e1 has any transform, *)
(* range and self occlusion of the scene sets, e2 is the main specification's*)
(* emitter at (10, 0, 0), the single receiver has any transform and self   *)
(* occlusion of the scene sets; each emitter plays one instance of its own.*)
(***************************************************************************)
SceneInit ==
    /\ spacial_audio = TRUE
    /\ receivers \in {<<r>> : r \in ReceiverValues}
    /\ emitters \in {[e \in Emitters |-> IF e = "e1" THEN a
                                         ELSE [EmitterAt(Vec3(10, 0, 0)) EXCEPT !.instances = <<"h2">>]] :
                        a \in EmitterValues({<<"h1">>})}
    /\ audio_instances = [h \in Handles |-> NewInstance]
    /\ last = Env
    /\ tick = NoTick
    /\ probe = NoProbe

SceneNext == RunSpacialAudio

SpecScene == SceneInit /\ [][SceneNext]_vars

(***************************************************************************)
(* lerp and the directional factor applied on their own, over every value  *)
(* of the float format.                                                    *)
(***************************************************************************)
RECURSIVE Binades(_, _)
Binades(k, acc) ==
    IF k > MaxExp THEN acc
    ELSE Binades(k + 1, acc \cup {m * Pow2(k) : m \in Pow2(Prec - 1)..(Pow2(Prec) - 1)})
NonNegFloats == Binades(1, 0..(Pow2(Prec) - 1))
FiniteFloats == NonNegFloats \cup {-v : v \in NonNegFloats}
Floats == FiniteFloats \cup {PosInf, NegInf, NaN}

\* Dot products of two unit vectors.
UnitFloats == {d \in FiniteFloats : -One <= d /\ d <= One}
LerpArgs == [fn : {"lerp_args"}, a : Floats, b : Floats, s : {Zero, One}]
FactorArgs == [fn : {"factor_args"}, dot : UnitFloats, self_occlusion : {Zero, One}]

LerpInit ==
    /\ spacial_audio = FALSE
    /\ receivers = <<>>
    /\ emitters \in SceneEmitters
    /\ emitters["e1"].transform.translation = VZero
    /\ audio_instances = NoInstances
    /\ last = Env
    /\ tick = NoTick
    /\ probe \in LerpArgs \cup FactorArgs

\* lerp(a, b, s).
ApplyLerp ==
    /\ probe.fn = "lerp_args"
    /\ probe' = [fn |-> "lerp", a |-> probe.a, b |-> probe.b, s |-> probe.s,
                 out |-> lerp(probe.a, probe.b, probe.s)]
    /\ UNCHANGED <<spacial_audio, receivers, emitters, audio_instances, last, tick>>

\* The directional factor of lines 82-83 for a dot product and a self occlusion.
ApplyDirFactor ==
    /\ probe.fn = "factor_args"
    /\ probe' = [fn |-> "factor", dot |-> probe.dot, self_occlusion |-> probe.self_occlusion,
                 out |-> DirFactor(probe.dot, probe.self_occlusion)]
    /\ UNCHANGED <<spacial_audio, receivers, emitters, audio_instances, last, tick>>

LerpNext == ApplyLerp \/ ApplyDirFactor

SpecLerp == LerpInit /\ [][LerpNext]_vars

(***************************************************************************)
(* The direct volume applied on its own at two distances, the range and    *)
(* the two directional factors being the same.                             *)
(***************************************************************************)
VolDistances == {d \in NonNegFloats : d > 0 /\ d <= FromInt(16)}
VolRanges == {FromInt(-1), Zero, FromInt(1), FromInt(5)}
VolFactors == {Zero, Half, One}

VolInit ==
    /\ spacial_audio = FALSE
    /\ receivers = <<>>
    /\ emitters \in SceneEmitters
    /\ emitters["e1"].transform.translation = VZero
    /\ audio_instances = NoInstances
    /\ last = Env
    /\ tick = NoTick
    /\ probe \in {p \in [fn : {"none"}, range : VolRanges, d1 : VolDistances, d2 : VolDistances,
                         ef : VolFactors, lf : VolFactors, v1 : {Zero}, v2 : {Zero}] :
                     p.d1 < p.d2}

ApplyDirectVolume ==
    /\ probe.fn = "none"
    /\ probe' = [probe EXCEPT !.fn = "direct_volume",
                              !.v1 = DirectVolume(probe.range, probe.d1, probe.ef, probe.lf),
                              !.v2 = DirectVolume(probe.range, probe.d2, probe.ef, probe.lf)]
    /\ UNCHANGED <<spacial_audio, receivers, emitters, audio_instances, last, tick>>

VolNext == ApplyDirectVolume

SpecVol == VolInit /\ [][VolNext]_vars
(***************************************************************************)
(* The claims.                                                             *)
(***************************************************************************)
Range(q) == {q[i] : i \in DOMAIN q}
InstancesOf(e) == emitters[e].instances
StoppedInStore(h) == h \in DOMAIN audio_instances /\ audio_instances[h].state = "Stopped"
NotStoppedInStore(h) == ~StoppedInStore(h)
\* The update's body runs: the resource is present and exactly one receiver exists.
Active == spacial_audio /\ Len(receivers) = 1
\* The entry of h holds exactly the pair computed for emitter e.
HoldsOutputOf(h, e) ==
    /\ audio_instances[h].volume = Attenuation(emitters[e], receivers[1]).volume
    /\ audio_instances[h].panning = Attenuation(emitters[e], receivers[1]).panning

\* C1: a cleanup pass leaves in every emitter's list, in their order, exactly the
\* handles that are not Stopped in the store: a handle is removed if and only if
\* the store holds it in state Stopped; a handle without an entry, or Playing or
\* Paused, stays.
C1_CleanupRemovesExactlyStopped ==
    [][(last'.stage = "cleanup" /\ spacial_audio) =>
          \A e \in Emitters :
             emitters'[e].instances = SelectSeq(emitters[e].instances, NotStoppedInStore)]_vars

C1_Witness ==
    /\ last.stage = "cleanup"
    /\ spacial_audio
    /\ \E e \in Emitters, h, g \in Handles :
         /\ InstancesOf(e) = <<h, g>>
         /\ h \notin DOMAIN audio_instances
         /\ g \in DOMAIN audio_instances /\ audio_instances[g].state = "Paused"

\* C2: with no receiver, or with two or more, an update pass changes no store
\* entry.
C2_NoSingleReceiverNoMutation ==
    [][(last'.stage = "update" /\ Len(receivers) # 1) => audio_instances' = audio_instances]_vars

C2_Witness ==
    /\ last.stage = "update"
    /\ spacial_audio
    /\ Len(receivers) = 2
    /\ \E e \in Emitters, h \in Handles :
         /\ h \in Range(InstancesOf(e))
         /\ h \in DOMAIN audio_instances
         /\ audio_instances[h].volume # Attenuation(emitters[e], receivers[1]).volume

\* C3 as stated: after an update pass with one receiver, every entry whose handle is
\* in an emitter's list holds that emitter's volume and panning.
C3_Original ==
    (last.stage = "update" /\ Active) =>
        \A e \in Emitters : \A h \in Range(InstancesOf(e)) :
            h \in DOMAIN audio_instances => HoldsOutputOf(h, e)

\* The emitters the query yielded after position i of the last update.
LaterEmitters(i) == {last.order[j] : j \in (i + 1)..Len(last.order)}

\* C3, amended: after an update pass with one receiver, every entry whose handle is in
\* the list of an emitter, and in the list of no emitter visited after it, holds
\* that emitter's volume and panning; and the pass adds no entry to the store and
\* removes none, handles without an entry being skipped.
C3_EntriesHoldLastEmittersOutput ==
    /\ [](( last.stage = "update" /\ Active) =>
            \A i \in DOMAIN last.order : \A h \in Range(InstancesOf(last.order[i])) :
                ( /\ h \in DOMAIN audio_instances
                  /\ \A l \in LaterEmitters(i) : h \notin Range(InstancesOf(l)) )
                => HoldsOutputOf(h, last.order[i]))
    /\ [][last'.stage = "update" => DOMAIN audio_instances' = DOMAIN audio_instances]_vars

C3_Witness ==
    /\ last.stage = "update"
    /\ Active
    /\ \E a, b \in Handles :
         /\ a \notin DOMAIN audio_instances
         /\ b \in DOMAIN audio_instances
         /\ InstancesOf(last.order[1]) = <<a>>
         /\ InstancesOf(last.order[2]) = <<a, b>>
         /\ HoldsOutputOf(b, last.order[2])
         /\ audio_instances[b].volume # One

\* C4: without the SpacialAudio resource neither system does anything: the update
\* stage changes no store entry and the cleanup stage changes no emitter.
C4_DisabledWithoutResource ==
    [][(~spacial_audio /\ last'.stage \in {"update", "cleanup"}) =>
          (audio_instances' = audio_instances /\ emitters' = emitters)]_vars

C4_Witness ==
    /\ ~spacial_audio
    /\ last.stage = "cleanup"
    /\ Len(receivers) = 1
    /\ \E e \in Emitters, h \in Handles :
         /\ h \in Range(InstancesOf(e))
         /\ StoppedInStore(h)
         /\ audio_instances[h].volume # Attenuation(emitters[e], receivers[1]).volume

\* No handle is in the list of two emitters.
Exclusive ==
    \A e, f \in Emitters : e # f => Range(InstancesOf(e)) \cap Range(InstancesOf(f)) = {}

\* C10: when no handle is in two emitters' lists, the store an update pass leaves is
\* the same for every order of the emitters; a handle in two emitters' lists whose
\* outputs differ is left with the output of the emitter visited last, so the two
\* orders leave different values in its entry.
C10_OrderMattersOnlyWhenShared ==
    /\ [][(last'.stage = "update" /\ Active /\ Exclusive) =>
             \A o \in EmitterOrders :
                 audio_instances' = Update(o, receivers[1], emitters, audio_instances)]_vars
    /\ [](Active =>
            \A o \in EmitterOrders : \A h \in DOMAIN audio_instances :
                ( /\ h \in Range(InstancesOf(o[1])) \cap Range(InstancesOf(o[2]))
                  /\ Attenuation(emitters[o[1]], receivers[1])
                       # Attenuation(emitters[o[2]], receivers[1]) )
                => /\ Update(o, receivers[1], emitters, audio_instances)[h].volume
                        = Attenuation(emitters[o[2]], receivers[1]).volume
                   /\ Update(o, receivers[1], emitters, audio_instances)[h].panning
                        = Attenuation(emitters[o[2]], receivers[1]).panning
                   /\ Update(o, receivers[1], emitters, audio_instances)[h]
                        # Update(<<o[2], o[1]>>, receivers[1], emitters, audio_instances)[h])

C10_Witness ==
    /\ last.stage = "update"
    /\ Active
    /\ \E h \in DOMAIN audio_instances :
         /\ h \in Range(InstancesOf(last.order[1])) \cap Range(InstancesOf(last.order[2]))
         /\ HoldsOutputOf(h, last.order[2])
         /\ ~HoldsOutputOf(h, last.order[1])
\* Both passes of the frame have visited every emitter.
TickDone == tick.upd = <<>> /\ tick.cln = <<>>
\* What the frame leaves when the whole update runs before the whole cleanup.
UpdateFirstInstances == Update(tick.order, receivers[1], tick.emitters, tick.audio_instances)
UpdateFirstEmitters ==
    [e \in Emitters |-> CleanupEmitter(tick.emitters[e], tick.audio_instances)]

\* C5 as stated: whatever the interleaving of the two passes, the frame ends with the
\* lists and the store entries (volume, panning, state) the update-then-cleanup
\* order gives.
C5_Original ==
    TickDone => (emitters = UpdateFirstEmitters /\ audio_instances = UpdateFirstInstances)

\* C5, amended: whatever the interleaving, the frame ends with the same emitter
\* lists, the same playback state of every entry, and the same volume and panning
\* of every entry that is not Stopped.
C5_InterleavingsAgreeExceptStopped ==
    TickDone =>
        /\ emitters = UpdateFirstEmitters
        /\ DOMAIN audio_instances = DOMAIN UpdateFirstInstances
        /\ \A h \in DOMAIN audio_instances :
             /\ audio_instances[h].state = UpdateFirstInstances[h].state
             /\ audio_instances[h].state # "Stopped" =>
                    audio_instances[h] = UpdateFirstInstances[h]

C5_Witness ==
    /\ TickDone
    /\ tick.order # <<>>
    /\ audio_instances # UpdateFirstInstances
    /\ \E e \in Emitters, h \in Handles :
         /\ h \in Range(InstancesOf(e))
         /\ h \in DOMAIN audio_instances
         /\ audio_instances[h].state = "Paused"
         /\ audio_instances[h].volume # One

\* C6: right after a cleanup pass no list holds a handle the store reports Stopped;
\* with the cleanup stage weakly fair, a handle that is in a list and Stopped in
\* the store leaves that list, or the store; and neither pass adds a handle to a
\* list.
C6_StoppedHandlesLeaveLists ==
    /\ []((last.stage = "cleanup" /\ spacial_audio) =>
            \A e \in Emitters : \A h \in Range(InstancesOf(e)) : ~StoppedInStore(h))
    /\ \A e \in Emitters : \A h \in Handles :
         (h \in Range(InstancesOf(e)) /\ StoppedInStore(h))
            ~> (h \notin Range(InstancesOf(e)) \/ h \notin DOMAIN audio_instances)
    /\ [][last'.stage \in {"update", "cleanup"} =>
             \A e \in Emitters :
                 Range(emitters'[e].instances) \subseteq Range(emitters[e].instances)]_vars

C6_Witness ==
    /\ last.stage = "cleanup"
    /\ spacial_audio
    /\ \E h \in Handles :
         /\ StoppedInStore(h)
         /\ \A e \in Emitters : h \notin Range(InstancesOf(e))
         /\ audio_instances[h].volume # One

\* The locals of the emitter loop for emitter e against the single receiver.
LocalsOf(e) ==
    EmitterLocals(emitters[e].transform, emitters[e].range, emitters[e].self_occlusion,
                  receivers[1].transform, receivers[1].self_occlusion)

FEq(a, b) == ~IsNaN(a) /\ ~IsNaN(b) /\ a = b

\* C8 as stated: lerp(a, b, 0) == a and lerp(a, b, 1) == b for all a and b; a self
\* occlusion of 0 makes the directional factor 1 and a self occlusion of 1 makes it
\* the raw factor dot * 0.5 + 0.5.
C8_Original ==
    /\ probe.fn = "lerp" =>
         /\ probe.s = Zero => FEq(probe.out, probe.a)
         /\ probe.s = One => FEq(probe.out, probe.b)
    /\ probe.fn = "factor" =>
         /\ probe.self_occlusion = Zero => probe.out = One
         /\ probe.self_occlusion = One => probe.out = RawFactor(probe.dot)

\* The difference b - a is finite and needed no rounding.
ExactDifference(a, b) == IsFinite(a) /\ IsFinite(b) /\ IsFinite(Sub(b, a)) /\ Sub(b, a) = b - a

\* C8, amended: lerp(a, b, 0) == a for finite a and b whose difference does not
\* overflow; lerp(a, b, 1) == b for finite a and b whose difference b - a is computed
\* without rounding; a self occlusion of 0 makes the directional factor exactly 1
\* for every dot product in [-1, 1]; a self occlusion of 1 makes it 1 + (raw - 1),
\* which is the raw factor exactly when raw - 1 is computed without rounding, as
\* it is for every raw factor from 0.5 to 1.
C8_LerpEndpoints ==
    /\ probe.fn = "lerp" =>
         /\ (probe.s = Zero /\ IsFinite(probe.a) /\ IsFinite(probe.b)
               /\ IsFinite(Sub(probe.b, probe.a))) => FEq(probe.out, probe.a)
         /\ (probe.s = One /\ ExactDifference(probe.a, probe.b)) => FEq(probe.out, probe.b)
    /\ probe.fn = "factor" =>
         LET raw == RawFactor(probe.dot)
         IN /\ probe.self_occlusion = Zero => probe.out = One
            /\ probe.self_occlusion = One => probe.out = Add(One, Sub(raw, One))
            /\ (probe.self_occlusion = One /\ ExactDifference(One, raw)) => probe.out = raw
            /\ (probe.self_occlusion = One /\ Le(Half, raw)) => probe.out = raw

C8_Witness ==
    /\ probe.fn = "factor"
    /\ probe.self_occlusion = One
    /\ Lt(Zero, RawFactor(probe.dot))
    /\ Lt(RawFactor(probe.dot), Half)
    /\ ExactDifference(One, RawFactor(probe.dot))
    /\ probe.out = RawFactor(probe.dot)

\* C9 as stated: for the same range and directional factors, the direct volume at
\* the smaller of two non-zero distances is greater than at the larger.
C9_Original ==
    probe.fn = "direct_volume" => Lt(probe.v2, probe.v1)

\* C9, amended: for a finite range above 0 and finite directional factors above 0,
\* the direct volume at the smaller of two finite non-zero distances is never less
\* than at the larger (rounding can make the two equal); range 5 at distance 10
\* with both factors 1 gives 8.
C9_VolumeNotLessWhenCloser ==
    /\ (probe.fn = "direct_volume" /\ probe.range > Zero /\ probe.ef > Zero /\ probe.lf > Zero)
          => Le(probe.v2, probe.v1)
    /\ (probe.fn = "direct_volume" /\ probe.range = FromInt(5) /\ probe.d2 = FromInt(10)
          /\ probe.ef = One /\ probe.lf = One) => probe.v2 = FromInt(8)

C9_Witness ==
    /\ probe.fn = "direct_volume"
    /\ probe.range = FromInt(5)
    /\ probe.d1 = FromInt(5)
    /\ probe.d2 = FromInt(10)
    /\ probe.ef = One /\ probe.lf = One
    /\ probe.v1 = FromInt(16)
    /\ probe.v2 = FromInt(8)
=============================================================================
